---- MODULE Spec2Model ----
(***************************************************************************)
(* Model of the hexstring crate (src/src/lib.rs): the HexString<C> value   *)
(* type, its validated constructor, the conversions from and into bytes,   *)
(* the case conversions and the serde deserialization hook.                *)
(*                                                                         *)
(* A text (Rust str) is a sequence of chars, a char is its Unicode scalar  *)
(* value (48 is '0', 65 is 'A', 97 is 'a', 233 is U+00E9), and a byte      *)
(* sequence is a sequence of 0..255.  str::len counts UTF-8 bytes, while   *)
(* str::chars yields chars: the model keeps the two apart.                 *)
(***************************************************************************)
EXTENDS Integers, Sequences, FiniteSets

VARIABLES input, hex, src, hist, call, res

vars == <<input, hex, src, hist, call, res>>

(* ---------------------------------------------------------------- bounds *)

\* longest candidate text, in chars
MaxLen == 4
\* longest byte sequence encoded
MaxBytes == 3
\* largest fixed-size array length N of TryFrom<HexString<C>> for [u8; N]
MaxN == 3

\* chars of the candidate texts: '0' '9' 'A' 'F' 'a' 'f' 'g' and U+00E9
Chars == {48, 57, 65, 70, 97, 102, 103, 233}

\* bytes of the encoded sequences
Bytes == {0, 5, 15, 42, 171, 255}

SeqsUpTo(S, n) == UNION {[1..k -> S] : k \in 0..n}

Texts == SeqsUpTo(Chars, MaxLen)

ByteSeqs == SeqsUpTo(Bytes, MaxBytes)

Cases == {"Lower", "Upper"}

(* ------------------------------------------------------- std: str, char *)

\* number of bytes of the UTF-8 encoding of char c
Utf8Len(c) == IF c < 128 THEN 1 ELSE IF c < 2048 THEN 2 ELSE IF c < 65536 THEN 3 ELSE 4

\* the UTF-8 encoding of char c
Utf8(c) ==
  IF c < 128 THEN <<c>>
  ELSE IF c < 2048 THEN <<192 + (c \div 64), 128 + (c % 64)>>
  ELSE IF c < 65536 THEN <<224 + (c \div 4096), 128 + ((c \div 64) % 64), 128 + (c % 64)>>
  ELSE <<240 + (c \div 262144), 128 + ((c \div 4096) % 64), 128 + ((c \div 64) % 64), 128 + (c % 64)>>

RECURSIVE StrBytes(_)
\* str::as_ref::<[u8]>: the UTF-8 bytes of text s
StrBytes(s) == IF s = <<>> THEN <<>> ELSE Utf8(Head(s)) \o StrBytes(Tail(s))

RECURSIVE StrLen(_)
\* str::len: the length of text s in bytes
StrLen(s) == IF s = <<>> THEN 0 ELSE Utf8Len(Head(s)) + StrLen(Tail(s))

\* u8::to_ascii_uppercase on a char
ToAsciiUpper(c) == IF c \in 97..122 THEN c - 32 ELSE c

\* u8::to_ascii_lowercase on a char
ToAsciiLower(c) == IF c \in 65..90 THEN c + 32 ELSE c

\* String::make_ascii_uppercase
MakeAsciiUppercase(s) == [i \in 1..Len(s) |-> ToAsciiUpper(s[i])]

\* String::make_ascii_lowercase
MakeAsciiLowercase(s) == [i \in 1..Len(s) |-> ToAsciiLower(s[i])]

(* -------------------------------------------------------------- results *)

\* a HexString<C>: the case tag C and the wrapped text
Hex(C, s) == [case |-> C, s |-> s]

\* no HexString value is held (none was produced, or it was consumed)
NoHex == [case |-> "None", s |-> <<>>]

Ok(v) == [tag |-> "Ok", c |-> 0, index |-> 0, val |-> v, wrapped |-> FALSE]

OddLength == [tag |-> "OddLength", c |-> 0, index |-> 0, val |-> <<>>, wrapped |-> FALSE]

InvalidStringLength ==
  [tag |-> "InvalidStringLength", c |-> 0, index |-> 0, val |-> <<>>, wrapped |-> FALSE]

InvalidHexCharacter(c, index) ==
  [tag |-> "InvalidHexCharacter", c |-> c, index |-> index, val |-> <<>>, wrapped |-> FALSE]

Panic == [tag |-> "Panic", c |-> 0, index |-> 0, val |-> <<>>, wrapped |-> FALSE]

NoResult == [tag |-> "None", c |-> 0, index |-> 0, val |-> <<>>, wrapped |-> FALSE]

(* ------------------------------------------------------ hex crate calls *)

\* the digit table of hex::encode (Lower) and hex::encode_upper (Upper)
HexTable(C) ==
  IF C = "Lower"
    THEN <<48, 49, 50, 51, 52, 53, 54, 55, 56, 57, 97, 98, 99, 100, 101, 102>>
    ELSE <<48, 49, 50, 51, 52, 53, 54, 55, 56, 57, 65, 66, 67, 68, 69, 70>>

RECURSIVE HexEncode(_, _)
\* hex::encode / hex::encode_upper: two digits per byte, high nibble first
HexEncode(C, bytes) ==
  IF bytes = <<>> THEN <<>>
  ELSE <<HexTable(C)[(Head(bytes) \div 16) + 1], HexTable(C)[(Head(bytes) % 16) + 1]>>
         \o HexEncode(C, Tail(bytes))

\* hex's val: the nibble of digit byte b, -1 when b is no hex digit
HexVal(b) ==
  IF b \in 65..70 THEN b - 55
  ELSE IF b \in 97..102 THEN b - 87
  ELSE IF b \in 48..57 THEN b - 48
  ELSE -1

RECURSIVE FirstBadDigit(_, _)
\* index (0-based) of the first byte from position i on that is no hex digit, -1 if none
FirstBadDigit(data, i) ==
  IF i > Len(data) THEN -1
  ELSE IF HexVal(data[i]) < 0 THEN i - 1
  ELSE FirstBadDigit(data, i + 1)

\* the decoding loop shared by hex::decode and hex::decode_to_slice
HexDecodePairs(data) ==
  LET bad == FirstBadDigit(data, 1) IN
  IF bad >= 0 THEN InvalidHexCharacter(data[bad + 1], bad)
  ELSE Ok([i \in 1..(Len(data) \div 2) |->
             HexVal(data[2 * i - 1]) * 16 + HexVal(data[2 * i])])

\* hex::decode
HexDecode(data) ==
  IF Len(data) % 2 # 0 THEN OddLength ELSE HexDecodePairs(data)

\* hex::decode_to_slice into a buffer of n bytes
HexDecodeToSlice(data, n) ==
  IF Len(data) % 2 # 0 THEN OddLength
  ELSE IF Len(data) \div 2 # n THEN InvalidStringLength
  ELSE HexDecodePairs(data)

(* ------------------------------------------------------------ HexString *)

\* the digit class test of HexString::new, letters of either case accepted
IsDigitClass_AnyCase(C, c) == c \in 48..57 \/ c \in 97..102 \/ c \in 65..70

\* the match of HexString::new's find, negated: c is a digit of case C
IsDigitClass(C, c) ==
  IF C = "Lower" THEN c \in 48..57 \/ c \in 97..102
  ELSE c \in 48..57 \/ c \in 65..70

RECURSIVE FindInvalid(_, _, _)
\* s.chars().enumerate().find(..): 0-based index of the first char from
\* position i on that is no digit of case C, -1 for None
FindInvalid(C, s, i) ==
  IF i > Len(s) THEN -1
  ELSE IF ~IsDigitClass(C, s[i]) THEN i - 1
  ELSE FindInvalid(C, s, i + 1)

\* HexString::new without its length check
New_NoLengthCheck(C, s) ==
  LET index == FindInvalid(C, s, 1) IN
  IF index >= 0 THEN InvalidHexCharacter(s[index + 1], index) ELSE Ok(s)

\* HexString::new: Ok(s) stands for Ok(Self(s))
New(C, s) ==
  IF StrLen(s) % 2 # 0 THEN OddLength
  ELSE LET index == FindInvalid(C, s, 1) IN
       IF index >= 0 THEN InvalidHexCharacter(s[index + 1], index) ELSE Ok(s)

\* HexString::new_unchecked
NewUnchecked(C, s) == Hex(C, s)

\* to_uppercase that forgets make_ascii_uppercase
ToUppercase_Unchanged(h) == NewUnchecked("Upper", h.s)

\* LowerHexString::to_uppercase
ToUppercase(h) == NewUnchecked("Upper", MakeAsciiUppercase(h.s))

\* to_lowercase that forgets make_ascii_lowercase
ToLowercase_Unchanged(h) == NewUnchecked("Lower", h.s)

\* UpperHexString::to_lowercase
ToLowercase(h) == NewUnchecked("Lower", MakeAsciiLowercase(h.s))

RECURSIVE EncodeNoPad(_, _)
\* bytes formatted one by one without zero padding (5 gives "5", not "05")
EncodeNoPad(C, bytes) ==
  IF bytes = <<>> THEN <<>>
  ELSE (IF Head(bytes) < 16 THEN <<HexTable(C)[Head(bytes) + 1]>>
        ELSE HexEncode(C, <<Head(bytes)>>)) \o EncodeNoPad(C, Tail(bytes))

\* From<&[u8]> encoding without zero padding
FromSlice_NoPad(C, bytes) == NewUnchecked(C, EncodeNoPad(C, bytes))

\* From<&[u8]> with the arms of its match swapped
FromSlice_SwappedArms(C, bytes) ==
  NewUnchecked(C, HexEncode(IF C = "Upper" THEN "Lower" ELSE "Upper", bytes))

\* From<&[u8]> for HexString<C>
FromSlice(C, bytes) == NewUnchecked(C, HexEncode(C, bytes))

\* From<Vec<u8>> for HexString<C>
FromVec(C, bytes) == FromSlice(C, bytes)

\* From<[u8; N]> for HexString<C>
FromArray(C, bytes) == FromSlice(C, bytes)

\* From<HexString<C>> for Vec<u8>: unwrap panics on Err
VecFromHex(h) ==
  LET r == HexDecode(StrBytes(h.s)) IN IF r.tag = "Ok" THEN r ELSE Panic

\* fixed-size decoding that truncates or zero-pads to n bytes
ArrayTryFromHex_Resizing(h, n) ==
  LET r == HexDecode(StrBytes(h.s)) IN
  IF r.tag # "Ok" THEN r
  ELSE Ok([i \in 1..n |-> IF i <= Len(r.val) THEN r.val[i] ELSE 0])

\* TryFrom<HexString<C>> for [u8; N]
ArrayTryFromHex(h, n) == HexDecodeToSlice(StrBytes(h.s), n)

\* seal::TryFrom<String> that wraps the text without validating it
TryFromString_Unchecked(C, s) == Ok(s)

\* seal::TryFrom<String> for HexString<C>
TryFromString(C, s) == New(C, s)

\* the Deserialize derived under serde(try_from = "String"): the String is
\* converted by TryFrom, its error wrapped by serde::de::Error::custom
Deserialize(C, s) ==
  LET r == TryFromString(C, s) IN
  IF r.tag = "Ok" THEN r ELSE [r EXCEPT !.wrapped = TRUE]

\* Default for HexString<C>: the empty Cow
DefaultHex(C) == Hex(C, <<>>)

(* ---------------------------------------------------------------- state *)
(* input what the caller constructs from, fixed for one run               *)
(* hex   the HexString value the program holds: the one the last          *)
(*       operation produced, NoHex when it produced none or consumed it   *)
(* src   what hex was constructed from: [from, data]                      *)
(* hist  the texts of the values consumed by the case conversions that    *)
(*       led to hex, oldest first (the last two are kept)                 *)
(* call  the last operation: its name, case tag C, argument and size N    *)
(* res   what the last operation returned                                 *)

Call(op, C, arg, n) == [op |-> op, case |-> C, arg |-> arg, n |-> n]

Source(from, data) == [from |-> from, data |-> data]

\* the last two entries of a history
LastTwo(h) == IF Len(h) > 2 THEN Tail(h) ELSE h

\* what a caller may construct from: a candidate text, a byte sequence, or
\* nothing (Default)
Inputs ==
  {Source("text", s) : s \in Texts} \cup {Source("bytes", b) : b \in ByteSeqs}
    \cup {Source("default", <<>>)}

\* before the first operation: the caller holds its input and no HexString
Init ==
  /\ input \in Inputs
  /\ hex = NoHex
  /\ src = Source("none", <<>>)
  /\ hist = <<>>
  /\ call = Call("start", "None", <<>>, 0)
  /\ res = NoResult

\* HexString::<C>::default()
CallDefault(C) ==
  /\ input.from = "default"
  /\ hex' = DefaultHex(C)
  /\ src' = Source("default", <<>>)
  /\ hist' = <<>>
  /\ call' = Call("default", C, <<>>, 0)
  /\ UNCHANGED input
  /\ res' = NoResult

\* HexString::<C>::new(s)
CallNew(C, s) ==
  LET r == New(C, s) IN
  /\ input.from = "text"
  /\ res' = r
  /\ hex' = IF r.tag = "Ok" THEN Hex(C, r.val) ELSE NoHex
  /\ src' = IF r.tag = "Ok" THEN Source("text", s) ELSE Source("none", <<>>)
  /\ hist' = <<>>
  /\ call' = Call("new", C, s, 0)
  /\ UNCHANGED input

\* HexString::<C>::from(&bytes[..])
CallFromSlice(C, bytes) ==
  /\ input.from = "bytes"
  /\ hex' = FromSlice(C, bytes)
  /\ src' = Source("bytes", bytes)
  /\ hist' = <<>>
  /\ call' = Call("from_slice", C, bytes, 0)
  /\ UNCHANGED input
  /\ res' = NoResult

\* HexString::<C>::from(bytes) for a Vec<u8>
CallFromVec(C, bytes) ==
  /\ input.from = "bytes"
  /\ hex' = FromVec(C, bytes)
  /\ src' = Source("bytes", bytes)
  /\ hist' = <<>>
  /\ call' = Call("from_vec", C, bytes, 0)
  /\ UNCHANGED input
  /\ res' = NoResult

\* HexString::<C>::from(bytes) for a [u8; N]
CallFromArray(C, bytes) ==
  /\ input.from = "bytes"
  /\ hex' = FromArray(C, bytes)
  /\ src' = Source("bytes", bytes)
  /\ hist' = <<>>
  /\ call' = Call("from_array", C, bytes, Len(bytes))
  /\ UNCHANGED input
  /\ res' = NoResult

\* hex.clone(): the derived Clone, the program goes on with the copy
CallClone ==
  /\ hex # NoHex
  /\ hex' = hex
  /\ call' = Call("clone", hex.case, hex.s, 0)
  /\ res' = NoResult
  /\ UNCHANGED <<input, src, hist>>

\* hex.to_uppercase(), defined on LowerHexString only
CallToUppercase ==
  /\ hex.case = "Lower"
  /\ hex' = ToUppercase(hex)
  /\ hist' = LastTwo(Append(hist, hex.s))
  /\ call' = Call("to_uppercase", "Lower", hex.s, 0)
  /\ res' = NoResult
  /\ UNCHANGED <<input, src>>

\* hex.to_lowercase(), defined on UpperHexString only
CallToLowercase ==
  /\ hex.case = "Upper"
  /\ hex' = ToLowercase(hex)
  /\ hist' = LastTwo(Append(hist, hex.s))
  /\ call' = Call("to_lowercase", "Upper", hex.s, 0)
  /\ res' = NoResult
  /\ UNCHANGED <<input, src>>

\* Vec::<u8>::from(hex), which consumes hex
CallIntoVec ==
  /\ hex # NoHex
  /\ res' = VecFromHex(hex)
  /\ call' = Call("into_vec", hex.case, hex.s, 0)
  /\ hex' = NoHex
  /\ UNCHANGED <<input, src, hist>>

\* <[u8; N]>::try_from(hex), which consumes hex
CallTryIntoArray(n) ==
  /\ hex # NoHex
  /\ res' = ArrayTryFromHex(hex, n)
  /\ call' = Call("try_into", hex.case, hex.s, n)
  /\ hex' = NoHex
  /\ UNCHANGED <<input, src, hist>>

\* deserializing the plain text s into a HexString<C>
CallDeserialize(C, s) ==
  LET r == Deserialize(C, s) IN
  /\ input.from = "text"
  /\ res' = r
  /\ hex' = IF r.tag = "Ok" THEN Hex(C, r.val) ELSE NoHex
  /\ src' = IF r.tag = "Ok" THEN Source("text", s) ELSE Source("none", <<>>)
  /\ hist' = <<>>
  /\ call' = Call("deserialize", C, s, 0)
  /\ UNCHANGED input

Next ==
  \/ \E C \in Cases : CallDefault(C)
  \/ \E C \in Cases : CallNew(C, input.data)
  \/ \E C \in Cases : CallFromSlice(C, input.data)
  \/ \E C \in Cases : CallFromVec(C, input.data)
  \/ \E C \in Cases : CallFromArray(C, input.data)
  \/ CallClone
  \/ CallToUppercase
  \/ CallToLowercase
  \/ CallIntoVec
  \/ \E n \in 0..MaxN : CallTryIntoArray(n)
  \/ \E C \in Cases : CallDeserialize(C, input.data)

Spec == Init /\ [][Next]_vars

(* --------------------------------------------------------------- claims *)

\* the digits and letters of each case, as the claims name them
Digits == 48..57

LowerLetters == 97..102

UpperLetters == 65..70

Alphabet(C) == Digits \cup (IF C = "Lower" THEN LowerLetters ELSE UpperLetters)

Letters(C) == IF C = "Lower" THEN LowerLetters ELSE UpperLetters

OtherCase(C) == IF C = "Lower" THEN "Upper" ELSE "Lower"

\* s is valid hex text of case C: even char count, chars of C's alphabet only
ValidText(C, s) == Len(s) % 2 = 0 /\ \A i \in 1..Len(s) : s[i] \in Alphabet(C)

\* position i is the first one of s whose char lies in set S
FirstIn(s, S, i) == i \in 1..Len(s) /\ s[i] \in S /\ \A j \in 1..(i - 1) : s[j] \notin S

\* position i is the first one of s whose char lies outside set S
FirstOutside(s, S, i) == i \in 1..Len(s) /\ s[i] \notin S /\ \A j \in 1..(i - 1) : s[j] \in S

\* s with every letter of its case replaced by the other case's letter
Recased(s, toCase) ==
  [i \in 1..Len(s) |->
     IF s[i] \in Letters(OtherCase(toCase))
       THEN s[i] + (IF toCase = "Upper" THEN -32 ELSE 32)
       ELSE s[i]]

\* the nibble a hex digit of either case stands for
Nibble(c) == IF c \in Digits THEN c - 48 ELSE IF c \in LowerLetters THEN c - 87 ELSE c - 55

\* hex was built from bytes and not converted since
FreshFromBytes == src.from = "bytes" /\ hist = <<>>

\* C1: every HexString the safe operations produce has an even number of
\* chars, all of them digits or letters of its own case
C1_Invariant ==
  hex # NoHex =>
    /\ Len(hex.s) % 2 = 0
    /\ \A i \in 1..Len(hex.s) : hex.s[i] \in Alphabet(hex.case)

C1_Witness ==
  /\ call.op = "to_uppercase"
  /\ hex.case = "Upper"
  /\ \E i \in 1..Len(hex.s) : hex.s[i] \in UpperLetters

\* C2: decoding the HexString encoded from the bytes B into a Vec returns B
C2_RoundTrip ==
  (call.op = "into_vec" /\ FreshFromBytes) =>
    (res.tag = "Ok" /\ res.val = src.data /\ src.data = input.data)

C2_Witness ==
  /\ call.op = "into_vec"
  /\ FreshFromBytes
  /\ Len(src.data) = 2
  /\ res.val = <<5, 171>>

\* C3 as stated: new fails with OddLength for every text with an odd number
\* of chars, whatever the chars are
C3_OddCharCountRejected ==
  (call.op = "new" /\ Len(call.arg) % 2 = 1) => res.tag = "OddLength"

\* C4 as stated: for a text with an even number of chars, one of them outside
\* the digit class, new fails with InvalidCharacter naming the first such
\* char and its 0-based position
C4_FirstInvalidReported ==
  (/\ call.op = "new"
   /\ Len(call.arg) % 2 = 0
   /\ \E i \in 1..Len(call.arg) : call.arg[i] \notin Alphabet(call.case)) =>
    /\ res.tag = "InvalidHexCharacter"
    /\ \E i \in 1..Len(call.arg) :
         /\ FirstOutside(call.arg, Alphabet(call.case), i)
         /\ res.index = i - 1
         /\ res.c = call.arg[i]

\* C5 as stated: new of the other case fails, for every valid text of one
\* case, with InvalidCharacter at the first letter of the text
C5_CaseExclusivity_AsStated ==
  (call.op = "new" /\ ValidText(OtherCase(call.case), call.arg)) =>
    /\ res.tag = "InvalidHexCharacter"
    /\ \E i \in 1..Len(call.arg) :
         FirstIn(call.arg, Letters(OtherCase(call.case)), i) /\ res.index = i - 1

\* C5 amended: new of the other case fails, for every valid text of one case
\* that holds at least one letter, with InvalidCharacter at the first letter
\* of the text; a valid text without letters is accepted by both cases
C5_CaseExclusivity ==
  (call.op = "new" /\ ValidText(OtherCase(call.case), call.arg)) =>
    IF \E i \in 1..Len(call.arg) : call.arg[i] \in Letters(OtherCase(call.case))
      THEN /\ res.tag = "InvalidHexCharacter"
           /\ hex = NoHex
           /\ \E i \in 1..Len(call.arg) :
                /\ FirstIn(call.arg, Letters(OtherCase(call.case)), i)
                /\ res.index = i - 1
                /\ res.c = call.arg[i]
      ELSE res.tag = "Ok"

C5_Witness ==
  /\ call.op = "new"
  /\ call.case = "Upper"
  /\ call.arg = <<48, 57, 102, 97>>
  /\ res.tag = "InvalidHexCharacter"
  /\ res.index = 2

\* C6: new succeeds exactly on the texts with an even number of chars, all
\* in the digit class of the case, and then stores the text unchanged
C6_NewAcceptsExactlyValid ==
  call.op = "new" =>
    /\ res.tag = "Ok" <=> ValidText(call.case, call.arg)
    /\ res.tag = "Ok" => (hex = Hex(call.case, call.arg) /\ res.val = call.arg)
    /\ res.tag # "Ok" => hex = NoHex

C6_Witness ==
  /\ call.op = "new"
  /\ call.case = "Lower"
  /\ call.arg = <<97, 102, 48, 57>>
  /\ res.tag = "Ok"
  /\ hex.s = <<97, 102, 48, 57>>

\* C7: a HexString encoded from N bytes B converts into [u8; N] as Ok(B) and
\* into [u8; M], M # N, fails with the length mismatch error; no fixed-size
\* decoding succeeds unless the char count is 2 * M
C7_FixedSizeRoundTrip ==
  call.op = "try_into" =>
    /\ FreshFromBytes =>
         IF call.n = Len(src.data)
           THEN res.tag = "Ok" /\ res.val = src.data
           ELSE res.tag = "InvalidStringLength"
    /\ res.tag = "Ok" => (Len(call.arg) = 2 * call.n /\ Len(res.val) = call.n)

C7_Witness ==
  /\ call.op = "try_into"
  /\ FreshFromBytes
  /\ Len(src.data) = 2
  /\ call.n = 3
  /\ res.tag = "InvalidStringLength"

\* C8: encoding the bytes B gives 2 * len(B) chars, chars 2i and 2i+1 being
\* the digits of the high and the low nibble of B[i] in the alphabet of the case
C8_Encoding ==
  (call.op \in {"from_slice", "from_vec", "from_array"}) =>
    /\ hex.case = call.case
    /\ Len(hex.s) = 2 * Len(call.arg)
    /\ \A i \in 1..Len(call.arg) :
         /\ hex.s[2 * i - 1] \in Alphabet(call.case)
         /\ hex.s[2 * i] \in Alphabet(call.case)
         /\ Nibble(hex.s[2 * i - 1]) = call.arg[i] \div 16
         /\ Nibble(hex.s[2 * i]) = call.arg[i] % 16

C8_Witness ==
  /\ call.op = "from_array"
  /\ call.case = "Upper"
  /\ call.arg = <<42, 15, 5>>
  /\ hex.s = <<50, 65, 48, 70, 48, 53>>

\* C9: to_uppercase gives the Upper value of the same digits with a-f
\* replaced by A-F, to_lowercase the mirror, and converting there and back
\* gives the value started from
C9_CaseConversion ==
  /\ call.op = "to_uppercase" =>
       /\ hex = Hex("Upper", Recased(call.arg, "Upper"))
       /\ New("Upper", Recased(call.arg, "Upper")) = Ok(hex.s)
       /\ Len(hex.s) = Len(call.arg)
       /\ (Len(hist) = 2 /\ ValidText("Upper", hist[1])) => hex.s = hist[1]
  /\ call.op = "to_lowercase" =>
       /\ hex = Hex("Lower", Recased(call.arg, "Lower"))
       /\ New("Lower", Recased(call.arg, "Lower")) = Ok(hex.s)
       /\ Len(hex.s) = Len(call.arg)
       /\ (Len(hist) = 2 /\ ValidText("Lower", hist[1])) => hex.s = hist[1]

C9_Witness ==
  /\ call.op = "to_lowercase"
  /\ hist = <<<<97, 48, 102, 57>>, <<65, 48, 70, 57>>>>
  /\ hex = Hex("Lower", <<97, 48, 102, 57>>)

\* C10: deserializing the text s succeeds exactly when new(s) does, to the
\* same value, and otherwise fails with a data error of the same kind
C10_DeserializeValidates ==
  call.op = "deserialize" =>
    /\ res.tag = "Ok" <=> ValidText(call.case, call.arg)
    /\ res.tag = "Ok" => hex = Hex(call.case, call.arg)
    /\ res.tag # "Ok" =>
         /\ hex = NoHex
         /\ res.wrapped
         /\ res.tag \in {"OddLength", "InvalidHexCharacter"}
         /\ res = [New(call.case, call.arg) EXCEPT !.wrapped = TRUE]

C10_Witness ==
  /\ call.op = "deserialize"
  /\ call.case = "Lower"
  /\ call.arg = <<97, 103>>
  /\ res.tag = "InvalidHexCharacter"
  /\ res.wrapped

====
